---- MODULE Spec2Model ----
(***************************************************************************)
(* The real-time chat core of BuyFromEgypt-Frontend: the Messages          *)
(* component (src/components/chat/ChatDialog.tsx, second half), the        *)
(* ChatDialog form it renders, and the part of the useSocket hook they     *)
(* rely on.  One action per handler; an action covers the handler, the     *)
(* state updates it queues and the effects React re-runs after the render  *)
(* those updates cause.  The server is outside the repository: its events  *)
(* and REST answers are inputs.                                            *)
(***************************************************************************)
EXTENDS Integers, Sequences, FiniteSets, TLC

\* ------------------------------------------------------------------ bounds
MaxSends == 2          \* sends issued in one run
MaxClock == 1          \* Date.now() takes the values 0..MaxClock
MaxOther == 2          \* distinct messages the counterpart sends
MaxMsgs == 3           \* length of the open conversation's messages list
MaxReadTimers == 1     \* pending mark-as-read timers (clicks within 1 s)
MaxSeenTimers == 1     \* pending seen timers (receipts within 1 s)
MaxDirect == 1         \* sends ChatDialog makes by itself in one run

\* --------------------------------------------------------- program constants
TypingTimeout == 3     \* setTimeout(..., 3000) of handleTyping, in seconds

\* ------------------------------------------------------------- value sets
Me == "u1"
Other == "u2"
Users == {Me, Other}
ConvIds == {1, 2}
NoConv == 0            \* conversationId missing from a payload (undefined)
SendIds == 1 .. MaxSends
DirectIds == 1 .. MaxDirect
Space == " "
Contents == {<<>>, <<Space>>, <<Space, Space>>, <<"a">>, <<Space, "a", Space>>}

TempId(t) == <<"temp", t>>
ServerId(s) == <<"m", s>>
DirectId(d) == <<"d", d>>
OtherId(k) == <<"o", k>>
HistId(c) == <<"h", c>>
NoId == <<"none", 0>>
ClientTime(t) == <<"client", <<"t", t>>>>
ServerTime(id) == <<"server", id>>
NoTime == <<"none", NoId>>

AllIds ==
  {TempId(t) : t \in 0 .. MaxClock} \cup {ServerId(s) : s \in SendIds}
    \cup {OtherId(k) : k \in 1 .. MaxOther} \cup {HistId(c) : c \in ConvIds}

ApiMessage(id, conv, sender, createdAt, seen, delivered) ==
  [messageId |-> id, conversationId |-> conv, senderId |-> sender,
   createdAt |-> createdAt, seen |-> seen, delivered |-> delivered]

NoLast == [id |-> NoId, createdAt |-> NoTime]
Null == [id |-> NoConv, messages |-> <<>>, lastMessage |-> NoLast, updatedAt |-> NoTime]

\* ---------------------------------------------------------- pure helpers
IsSpace(ch) == ch = Space

RECURSIVE TrimStart(_)
TrimStart(s) ==
  IF s # <<>> /\ IsSpace(Head(s)) THEN TrimStart(Tail(s)) ELSE s

RECURSIVE TrimEnd(_)
TrimEnd(s) ==
  IF s # <<>> /\ IsSpace(s[Len(s)]) THEN TrimEnd(SubSeq(s, 1, Len(s) - 1)) ELSE s

Trim(s) == TrimEnd(TrimStart(s))

\* A status update that flips the flag instead of setting it.
FlipStatus(msg, status) ==
  IF status = "delivered" THEN [msg EXCEPT !.delivered = ~@]
  ELSE [msg EXCEPT !.seen = ~@]

\* { ...msg, [status]: true }
SetStatus(msg, status) ==
  IF status = "delivered" THEN [msg EXCEPT !.delivered = TRUE]
  ELSE [msg EXCEPT !.seen = TRUE]

\* messages.map(msg => msg.messageId === id ? {...msg, [status]: true} : msg)
MarkStatus(msgs, id, status) ==
  [i \in DOMAIN msgs |->
    IF msgs[i].messageId = id THEN SetStatus(msgs[i], status) ELSE msgs[i]]

\* messages.map(msg => msg.messageId === id ? {...msg, delivered: true} : msg)
MarkDelivered(msgs, id) ==
  [i \in DOMAIN msgs |->
    IF msgs[i].messageId = id THEN [msgs[i] EXCEPT !.delivered = TRUE] ELSE msgs[i]]

\* messages.map(msg => msg.messageId === id ? {...msg, seen: true, delivered: true} : msg)
MarkSeen(msgs, id) ==
  [i \in DOMAIN msgs |->
    IF msgs[i].messageId = id
    THEN [msgs[i] EXCEPT !.seen = TRUE, !.delivered = TRUE] ELSE msgs[i]]

\* messages.findIndex(msg => msg.messageId === id); 0 stands for -1
FindIndex(msgs, id) ==
  IF \E i \in DOMAIN msgs : msgs[i].messageId = id
  THEN CHOOSE i \in DOMAIN msgs :
         /\ msgs[i].messageId = id
         /\ \A j \in DOMAIN msgs : msgs[j].messageId = id => i <= j
  ELSE 0

\* MarkReadThrough with the named message itself left out (index < messageIndex).
MarkReadBefore(msgs, messageIndex) ==
  [i \in DOMAIN msgs |->
    IF i < messageIndex
    THEN [msgs[i] EXCEPT !.seen = TRUE, !.delivered = TRUE] ELSE msgs[i]]

\* messages.map((msg, index) => index <= messageIndex ? {...seen, delivered} : msg)
MarkReadThrough(msgs, messageIndex) ==
  [i \in DOMAIN msgs |->
    IF i <= messageIndex
    THEN [msgs[i] EXCEPT !.seen = TRUE, !.delivered = TRUE] ELSE msgs[i]]

\* messages.map(msg => ({...msg, seen: true, delivered: true}))
MarkAllRead(msgs) ==
  [i \in DOMAIN msgs |-> [msgs[i] EXCEPT !.seen = TRUE, !.delivered = TRUE]]

\* messages.map(msg => msg.messageId === tempId ? {...msg, messageId, createdAt} : msg)
ResolveIdentity(msgs, tempId, id, createdAt) ==
  [i \in DOMAIN msgs |->
    IF msgs[i].messageId = tempId
    THEN [msgs[i] EXCEPT !.messageId = id, !.createdAt = createdAt] ELSE msgs[i]]

\* prev.messages.some(m => m.messageId === id)
MessageExists(msgs, id) == \E i \in DOMAIN msgs : msgs[i].messageId = id

LastOf(msgs) == msgs[Len(msgs)]

\* The conversation object the list hands to handleConversationClick.
ApiConversation(data, c) ==
  [id |-> c, messages |-> data[c],
   lastMessage |-> IF data[c] = <<>> THEN NoLast
                   ELSE [id |-> LastOf(data[c]).messageId,
                         createdAt |-> LastOf(data[c]).createdAt],
   updatedAt |-> ServerTime(HistId(c))]

\* ------------------------------------------------------------------ state
VARIABLES
  now,                  \* Date.now()
  apiData,              \* cached result of useGetConversationsQuery(userId)
  currentConversation,  \* useState<ApiConversation | null>
  isChatOpen,           \* useState(false)
  connected,            \* socket.connected
  sends,                \* the handleSendMessage calls, each with its closure
  readTimers,           \* pending setTimeout(handleMarkConversationAsRead, 1000)
  seenTimers,           \* pending setTimeout(emit "seen", 1000)
  typingTimers,         \* pending timers of handleTyping; typingTimeoutRef
  teardown,             \* what the cleanup of the useSocket effect did, if it ran
  dialogSocket,         \* the socket of ChatDialog's own useSocket()
  direct,               \* the handleSubmit calls that send by themselves
  emitted,              \* the calls the last step made on the sockets and the REST API, in order
  lastEvent             \* the handler that ran last, with its input

vars ==
  <<now, apiData, currentConversation, isChatOpen,
    connected, sends, readTimers, seenTimers, typingTimers, teardown,
    dialogSocket, direct, emitted, lastEvent>>

\* useSocket().socket as Messages sees it.  The conversation list, and with it
\* every handler below, is rendered only after the conversations query has
\* answered, a render that follows the hook's effect: the handle is there.
socket == TRUE

IdleSend ==
  [pc |-> "idle", tempMessageId |-> NoId, conversationId |-> NoConv,
   onDelivered |-> FALSE, onSeen |-> FALSE, cleanupTimer |-> FALSE]

\* A handleSubmit call of ChatDialog that has not started.
IdleDirect == [pc |-> "idle", conversationId |-> NoConv, messageId |-> NoId]

HistMessage(c, u) == ApiMessage(HistId(c), c, u, ServerTime(HistId(c)), FALSE, FALSE)

\* What the first answer of the conversations query holds: conversation 1 is
\* new or holds a message of this user, the others one of the counterpart.
\* Later answers (refetch) are the server's to give; the list keeps this one,
\* as it does until a refetch has answered.
InitialLists(c) ==
  IF c = 1 THEN {<<>>, <<HistMessage(c, Me)>>} ELSE {<<HistMessage(c, Other)>>}

Init ==
  /\ now = 0
  /\ apiData \in {d \in [ConvIds -> UNION {InitialLists(c) : c \in ConvIds}] :
                    \A c \in ConvIds : d[c] \in InitialLists(c)}
  /\ currentConversation = Null
  /\ isChatOpen = FALSE
  /\ connected = FALSE
  /\ sends = [s \in SendIds |-> IdleSend]
  /\ readTimers = {}
  /\ seenTimers = {}
  /\ typingTimers = {}
  /\ teardown = "none"
  /\ dialogSocket = "none"
  /\ direct = [d \in DirectIds |-> IdleDirect]
  /\ emitted = <<>>
  /\ lastEvent = [type |-> "init"]

\* The listeners effect: its cleanup (with the conversation of the render that
\* registered it) and its next run.
ListenersEffect(oldConv, newConv) ==
  (IF socket /\ oldConv # Null
   THEN <<[event |-> "leaveConversation", conversationId |-> oldConv.id]>>
   ELSE <<>>)
  \o
  (IF socket /\ newConv # Null
   THEN <<[event |-> "joinConversation", conversationId |-> newConv.id]>>
   ELSE <<>>)

\* ------------------------------------------------------------ useSocket
\* A connect handler that announces nothing.
OnConnectSilent ==
  /\ ~connected
  /\ teardown # "disconnected"
  /\ connected' = TRUE
  /\ emitted' = <<>>
  /\ lastEvent' = [type |-> "connect"]
  /\ UNCHANGED <<typingTimers, teardown, dialogSocket, direct>>
  /\ UNCHANGED <<now, apiData, currentConversation, isChatOpen, sends, readTimers, seenTimers>>

\* socket.on("connect", ...)
OnConnect ==
  /\ ~connected
  /\ teardown # "disconnected"
  /\ connected' = TRUE
  /\ emitted' = <<[event |-> "userOnline", userId |-> Me]>>
  /\ lastEvent' = [type |-> "connect"]
  /\ UNCHANGED <<typingTimers, teardown, dialogSocket, direct>>
  /\ UNCHANGED <<now, apiData, currentConversation, isChatOpen, sends, readTimers, seenTimers>>

\* socket.on("disconnect", ...): the transport dropped
OnDisconnect ==
  /\ connected
  /\ connected' = FALSE
  /\ emitted' = <<>>
  /\ lastEvent' = [type |-> "disconnect"]
  /\ UNCHANGED <<typingTimers, teardown, dialogSocket, direct>>
  /\ UNCHANGED <<now, apiData, currentConversation, isChatOpen, sends, readTimers, seenTimers>>

\* ChatDialog calls useSocket() itself: its own ref, effect and io() socket.
\* The calls on that socket are logged with on |-> "ChatDialog".
DialogUserOnline == [event |-> "userOnline", userId |-> Me, on |-> "ChatDialog"]
DialogUserOffline == [event |-> "userOffline", userId |-> Me, on |-> "ChatDialog"]

\* ChatDialog is rendered once there is a conversation; its hook's effect runs.
DialogMounted(state) == IF state = "none" THEN "connecting" ELSE state

\* socket.on("connect", ...) of ChatDialog's socket
DialogConnect ==
  /\ dialogSocket = "connecting"
  /\ dialogSocket' = "connected"
  /\ emitted' = <<DialogUserOnline>>
  /\ lastEvent' = [type |-> "dialogConnect"]
  /\ UNCHANGED <<now, apiData, currentConversation, isChatOpen, connected, sends,
                 readTimers, seenTimers, typingTimers, teardown, direct>>

\* socket.on("disconnect", ...) of ChatDialog's socket: the transport dropped
DialogDisconnect ==
  /\ dialogSocket = "connected"
  /\ dialogSocket' = "connecting"
  /\ emitted' = <<>>
  /\ lastEvent' = [type |-> "dialogDisconnect"]
  /\ UNCHANGED <<now, apiData, currentConversation, isChatOpen, connected, sends,
                 readTimers, seenTimers, typingTimers, teardown, direct>>

\* The two components that call useSocket(), each with its own socketRef.
HookOwners == {"Messages", "ChatDialog"}

\* socketRef.current?.connected of the hook of a component
HookConnected(owner) ==
  IF owner = "Messages" THEN connected ELSE dialogSocket = "connected"

\* The arguments sendMessage of the hook is called with.
HookMessages ==
  {[senderId |-> Me, receiverId |-> Other, content |-> c, messageType |-> "TEXT"] :
     c \in {<<"a">>, <<"b">>}}

\* socketRef.current.emit("sendMessage", message)
HookEmit(owner, message) ==
  IF owner = "Messages"
  THEN [event |-> "sendMessage", message |-> message]
  ELSE [event |-> "sendMessage", message |-> message, on |-> "ChatDialog"]

\* A sendMessage that emits without looking at the connection.
SendMessageUnchecked(owner, message) ==
  /\ emitted' = <<HookEmit(owner, message)>>
  /\ lastEvent' = [type |-> "sendMessage", owner |-> owner, message |-> message,
                   returned |-> HookConnected(owner)]
  /\ UNCHANGED <<now, apiData, currentConversation, isChatOpen, connected, sends,
                 readTimers, seenTimers, typingTimers, teardown, dialogSocket, direct>>

\* sendMessage of useSocket: the callback is stable and reads the ref, so it
\* can be called at any time, also after the unmount.
SendMessage(owner, message) ==
  /\ emitted' = IF HookConnected(owner) THEN <<HookEmit(owner, message)>> ELSE <<>>
  /\ lastEvent' = [type |-> "sendMessage", owner |-> owner, message |-> message,
                   returned |-> HookConnected(owner)]
  /\ UNCHANGED <<now, apiData, currentConversation, isChatOpen, connected, sends,
                 readTimers, seenTimers, typingTimers, teardown, dialogSocket, direct>>

\* socket.disconnect() in the log of calls on the socket
SocketDisconnect == [event |-> "socket.disconnect()"]

\* The cleanup of the useSocket effect.
HookCleanup ==
  IF connected
  THEN <<[event |-> "userOffline", userId |-> Me], SocketDisconnect>>
  ELSE <<>>

\* A cleanup of the listeners effect that leaves no room.
NoListenersCleanup == <<>>

\* The cleanup of the listeners effect (the receive effect's only calls off).
ListenersCleanup ==
  IF socket /\ currentConversation # Null
  THEN <<[event |-> "leaveConversation", conversationId |-> currentConversation.id]>>
  ELSE <<>>

\* The cleanup of the useSocket effect of ChatDialog.
DialogHookCleanup ==
  IF dialogSocket = "connected"
  THEN <<DialogUserOffline, [event |-> "socket.disconnect()", on |-> "ChatDialog"]>>
  ELSE <<>>

\* Messages unmounts, ChatDialog with it: the cleanups run in the order the
\* effects were declared, the parent's first; the state is dropped.
Unmount ==
  /\ teardown = "none"
  /\ teardown' = IF connected THEN "disconnected" ELSE "skipped"
  /\ connected' = FALSE
  /\ dialogSocket' = IF dialogSocket = "connected" THEN "disconnected" ELSE dialogSocket
  /\ emitted' = HookCleanup \o ListenersCleanup \o DialogHookCleanup
  /\ currentConversation' = Null
  /\ isChatOpen' = FALSE
  /\ lastEvent' = [type |-> "unmount"]
  /\ UNCHANGED <<now, apiData, sends, readTimers, seenTimers, typingTimers, direct>>

\* Date.now() advances.
Tick ==
  /\ now < MaxClock
  /\ now' = now + 1
  /\ emitted' = <<>>
  /\ lastEvent' = [type |-> "tick"]
  /\ UNCHANGED <<typingTimers, teardown, dialogSocket, direct>>
  /\ UNCHANGED <<apiData, currentConversation, isChatOpen, connected, sends, readTimers, seenTimers>>

\* ------------------------------------------------- opening a conversation
\* handleMarkConversationAsRead as the click's timer will run it: the closure
\* holds the socket and the currentConversation of the render before the click.
ReadTimer(c) ==
  [conversationId |-> c, socket |-> socket,
   lastReadMessageId |->
     IF currentConversation # Null /\ currentConversation.messages # <<>>
     THEN LastOf(currentConversation.messages).messageId ELSE NoId]

\* A timer whose closure holds no socket, no conversation or an empty one
\* returns at once when it fires: it is not kept.
ArmedReadTimers(c) ==
  IF ReadTimer(c).socket /\ ReadTimer(c).lastReadMessageId # NoId
  THEN {ReadTimer(c)} ELSE {}

HandleConversationClick(c) ==
  /\ teardown = "none"
  /\ dialogSocket' = DialogMounted(dialogSocket)
  /\ Cardinality(readTimers) < MaxReadTimers
  /\ currentConversation' = ApiConversation(apiData, c)
  /\ isChatOpen' = TRUE
  /\ readTimers' = readTimers \cup ArmedReadTimers(c)
  /\ emitted' = ListenersEffect(currentConversation, ApiConversation(apiData, c))
  /\ lastEvent' = [type |-> "conversationClick", conversationId |-> c]
  /\ UNCHANGED <<typingTimers, teardown, direct>>
  /\ UNCHANGED <<now, apiData, connected, sends, seenTimers>>

\* The timer of handleConversationClick fires: handleMarkConversationAsRead.
HandleMarkConversationAsRead(t) ==
  /\ t \in readTimers
  /\ readTimers' = readTimers \ {t}
  /\ lastEvent' = [type |-> "markConversationAsRead", timer |-> t]
  /\ UNCHANGED <<typingTimers, teardown, dialogSocket, direct>>
  /\ IF t.socket /\ t.lastReadMessageId # NoId
     THEN /\ currentConversation' =
               IF currentConversation = Null THEN Null
               ELSE [currentConversation EXCEPT !.messages = MarkAllRead(@)]
          /\ emitted' =
               <<[event |-> "conversationRead", conversationId |-> t.conversationId,
                  userId |-> Me, lastReadMessageId |-> t.lastReadMessageId]>>
               \o (IF currentConversation = Null THEN <<>>
                   ELSE ListenersEffect(currentConversation, currentConversation))
     ELSE /\ emitted' = <<>>
          /\ UNCHANGED currentConversation
  /\ UNCHANGED <<now, apiData, isChatOpen, connected, sends,
                 seenTimers>>

\* Dialog onOpenChange(false) / handleCloseChat
HandleCloseChat ==
  /\ isChatOpen
  /\ isChatOpen' = FALSE
  /\ emitted' = ListenersEffect(currentConversation, currentConversation)
  /\ lastEvent' = [type |-> "closeChat"]
  /\ UNCHANGED <<typingTimers, teardown, dialogSocket, direct>>
  /\ UNCHANGED <<now, apiData, currentConversation, connected,
                 sends, readTimers, seenTimers>>

\* -------------------------------------------------------- status events
\* The listeners effect registered its handlers: a handle and a conversation
\* were there at the last render; events arrive over a live connection.
ListenersRegistered == socket /\ connected /\ currentConversation # Null

\* A state update that built a new conversation object: render, effect re-run.
Updated(newConv, handlerEmits) ==
  /\ currentConversation' = newConv
  /\ emitted' = handlerEmits
                 \o ListenersEffect(currentConversation, newConv)

\* The ids an event can name: those of the open conversation's messages, and
\* one that is not among them (all such ids behave alike).
PresentIds ==
  {currentConversation.messages[i].messageId : i \in DOMAIN currentConversation.messages}

EventIds ==
  PresentIds \cup
    (IF AllIds \subseteq PresentIds THEN {}
     ELSE {CHOOSE id \in AllIds \ PresentIds : TRUE})

StatusData == [messageId : EventIds, status : {"delivered", "seen"}]

\* The transport delivers the event it delivered last once more.
Again(type, data) == lastEvent.type = type /\ lastEvent.data = data

HandleMessageStatus(data) ==
  /\ ListenersRegistered
  /\ Updated([currentConversation EXCEPT
                !.messages = MarkStatus(@, data.messageId, data.status)], <<>>)
  /\ lastEvent' = [type |-> "messageStatus", data |-> data,
                   again |-> Again("messageStatus", data)]
  /\ UNCHANGED <<typingTimers, teardown, dialogSocket, direct>>
  /\ UNCHANGED <<now, apiData, isChatOpen, connected, sends,
                 readTimers, seenTimers>>

StatusUpdatedData ==
  [messageId : EventIds, status : {"delivered", "seen"},
   conversationId : ConvIds \cup {NoConv}]

HandleMessageStatusUpdated(data) ==
  /\ ListenersRegistered
  /\ IF data.conversationId = currentConversation.id
     THEN Updated([currentConversation EXCEPT
                     !.messages = MarkStatus(@, data.messageId, data.status)], <<>>)
     ELSE /\ emitted' = <<>>
          /\ UNCHANGED currentConversation
  /\ lastEvent' = [type |-> "messageStatusUpdated", data |-> data,
                   again |-> Again("messageStatusUpdated", data)]
  /\ UNCHANGED <<typingTimers, teardown, dialogSocket, direct>>
  /\ UNCHANGED <<now, apiData, isChatOpen, connected, sends,
                 readTimers, seenTimers>>

MessageSentData == [messageId : EventIds, conversationId : ConvIds, success : BOOLEAN]

HandleMessageSent(data) ==
  /\ ListenersRegistered
  /\ IF data.conversationId = currentConversation.id /\ data.success
     THEN Updated([currentConversation EXCEPT
                     !.messages = MarkDelivered(@, data.messageId)], <<>>)
     ELSE /\ emitted' = <<>>
          /\ UNCHANGED currentConversation
  /\ lastEvent' = [type |-> "messageSent", data |-> data]
  /\ UNCHANGED <<typingTimers, teardown, dialogSocket, direct>>
  /\ UNCHANGED <<now, apiData, isChatOpen, connected, sends,
                 readTimers, seenTimers>>

ConversationReadData == [conversationId : ConvIds, lastReadMessageId : EventIds]

HandleConversationRead(data) ==
  /\ ListenersRegistered
  /\ IF /\ data.conversationId = currentConversation.id
        /\ FindIndex(currentConversation.messages, data.lastReadMessageId) # 0
     THEN Updated([currentConversation EXCEPT
                     !.messages = MarkReadThrough(@, FindIndex(@, data.lastReadMessageId))],
                  <<>>)
     ELSE /\ emitted' = <<>>
          /\ UNCHANGED currentConversation
  /\ lastEvent' = [type |-> "conversationRead", data |-> data]
  /\ UNCHANGED <<typingTimers, teardown, dialogSocket, direct>>
  /\ UNCHANGED <<now, apiData, isChatOpen, connected, sends,
                 readTimers, seenTimers>>

\* ------------------------------------------------------ receiveMessage
\* What the transport can deliver: a message of the counterpart, or the echo
\* of one of this user's own sends once the server has been given it.
ReceivableMessages ==
  {ApiMessage(OtherId(k), c, Other, ServerTime(OtherId(k)), FALSE, FALSE) :
     k \in 1 .. MaxOther, c \in ConvIds}
  \cup
  {ApiMessage(ServerId(s), sends[s].conversationId, Me, ServerTime(ServerId(s)),
              FALSE, FALSE) : s \in {x \in SendIds : sends[x].pc \in {"awaiting", "resolved"}}}

\* ReceiveRemote without the check of the conversation.
ReceiveRemoteAnyConversation(prev, msg) ==
  IF prev = Null THEN prev
  ELSE IF MessageExists(prev.messages, msg.messageId) THEN prev
  ELSE [prev EXCEPT
          !.messages = Append(@, msg),
          !.updatedAt = ClientTime(now),
          !.lastMessage = [id |-> msg.messageId, createdAt |-> msg.createdAt]]

\* ReceiveRemote without the messageExists check.
ReceiveRemoteNoDedup(prev, msg) ==
  IF prev = Null \/ prev.id # msg.conversationId THEN prev
  ELSE [prev EXCEPT
          !.messages = Append(@, msg),
          !.updatedAt = ClientTime(now),
          !.lastMessage = [id |-> msg.messageId, createdAt |-> msg.createdAt]]

\* The setCurrentConversation updater of handleNewMessage.
ReceiveRemote(prev, msg) ==
  IF prev = Null \/ prev.id # msg.conversationId THEN prev
  ELSE IF MessageExists(prev.messages, msg.messageId) THEN prev
  ELSE [prev EXCEPT
          !.messages = Append(@, msg),
          !.updatedAt = ClientTime(now),
          !.lastMessage = [id |-> msg.messageId, createdAt |-> msg.createdAt]]

\* DeliveredReceipts without the check of the sender.
DeliveredReceiptsToAll(msg) ==
  <<[event |-> "messageStatus", messageId |-> msg.messageId,
     status |-> "delivered", conversationId |-> NoConv],
    [event |-> "messageStatusUpdated", messageId |-> msg.messageId,
     status |-> "delivered", conversationId |-> msg.conversationId]>>

\* The receipts handleNewMessage emits at once.
DeliveredReceipts(msg) ==
  IF msg.senderId # Me
  THEN <<[event |-> "messageStatus", messageId |-> msg.messageId,
          status |-> "delivered", conversationId |-> NoConv],
         [event |-> "messageStatusUpdated", messageId |-> msg.messageId,
          status |-> "delivered", conversationId |-> msg.conversationId]>>
  ELSE <<>>

\* A seen timer armed whoever sent the message.
SeenTimersForAnySender(msg) ==
  IF isChatOpen /\ currentConversation.id = msg.conversationId
  THEN {[messageId |-> msg.messageId, conversationId |-> msg.conversationId]}
  ELSE {}

\* The seen timer handleNewMessage arms.
SeenTimersFor(msg) ==
  IF msg.senderId # Me /\ isChatOpen /\ currentConversation.id = msg.conversationId
  THEN {[messageId |-> msg.messageId, conversationId |-> msg.conversationId]}
  ELSE {}

HandleNewMessage(msg) ==
  /\ teardown = "none"
  /\ socket /\ connected
  /\ Len(currentConversation.messages) < MaxMsgs
  /\ Cardinality(seenTimers \cup SeenTimersFor(msg)) <= MaxSeenTimers
  /\ seenTimers' = seenTimers \cup SeenTimersFor(msg)
  /\ IF ReceiveRemote(currentConversation, msg) # currentConversation
     THEN Updated(ReceiveRemote(currentConversation, msg), DeliveredReceipts(msg))
     ELSE /\ emitted' = DeliveredReceipts(msg)
          /\ UNCHANGED currentConversation
  /\ lastEvent' = [type |-> "receiveMessage", message |-> msg]
  /\ UNCHANGED <<typingTimers, teardown, dialogSocket, direct>>
  /\ UNCHANGED <<now, apiData, isChatOpen, connected, sends,
                 readTimers>>

\* The seen timer fires, 1 s after the receipt.
SeenTimerFire(t) ==
  /\ t \in seenTimers
  /\ seenTimers' = seenTimers \ {t}
  /\ emitted' =
       <<[event |-> "messageStatus", messageId |-> t.messageId, status |-> "seen",
          conversationId |-> NoConv],
         [event |-> "messageStatusUpdated", messageId |-> t.messageId,
          status |-> "seen", conversationId |-> t.conversationId]>>
  /\ lastEvent' = [type |-> "seenTimer", timer |-> t]
  /\ UNCHANGED <<typingTimers, teardown, dialogSocket, direct>>
  /\ UNCHANGED <<now, apiData, currentConversation, isChatOpen, connected, sends, readTimers>>

\* -------------------------------------------------------------- typing
\* typingTimeoutRef.current, while the timer it names is pending
typingTimeoutRef == {t \in typingTimers : t.current}

\* handleTyping that overwrites typingTimeoutRef without clearTimeout.
ForgetTypingTimeout(timers) == {[t EXCEPT !.current = FALSE] : t \in timers}

\* if (typingTimeoutRef.current) clearTimeout(typingTimeoutRef.current)
ClearTypingTimeout(timers) == {t \in timers : ~t.current}

TypingStatus(c, isTyping) ==
  [event |-> "typingStatus", conversationId |-> c, userId |-> Me,
   isTyping |-> isTyping]

\* typingTimeoutRef.current = setTimeout(..., 3000): the closure holds the
\* conversation of the render that built handleTyping.
TypingTimer(c) == [conversationId |-> c, elapsed |-> 0, current |-> TRUE]

\* handleTyping(isTyping)
HandleTyping(isTyping) ==
  /\ teardown = "none"
  /\ lastEvent' = [type |-> "typing", isTyping |-> isTyping,
                   cleared |-> typingTimeoutRef]
  /\ IF ~socket \/ currentConversation = Null
     THEN /\ emitted' = <<>>
          /\ UNCHANGED typingTimers
     ELSE /\ emitted' = <<TypingStatus(currentConversation.id, isTyping)>>
          /\ typingTimers' =
               ClearTypingTimeout(typingTimers) \cup
                 (IF isTyping THEN {TypingTimer(currentConversation.id)} ELSE {})
  /\ UNCHANGED <<now, apiData, currentConversation, isChatOpen, connected, sends,
                 readTimers, seenTimers, teardown, dialogSocket, direct>>

\* The timer of handleTyping fires, 3000 ms after it was armed.
TypingTimerFire(t) ==
  /\ t \in typingTimers
  /\ t.elapsed = TypingTimeout
  /\ typingTimers' = typingTimers \ {t}
  /\ emitted' = <<TypingStatus(t.conversationId, FALSE)>>
  /\ lastEvent' = [type |-> "typingTimer", timer |-> t]
  /\ UNCHANGED <<now, apiData, currentConversation, isChatOpen, connected, sends,
                 readTimers, seenTimers, teardown, dialogSocket, direct>>

\* A second passes with no call of handleTyping; a timer that is due fires
\* before the next second does.
Elapse ==
  /\ typingTimers # {}
  /\ \A t \in typingTimers : t.elapsed < TypingTimeout
  /\ typingTimers' = {[t EXCEPT !.elapsed = @ + 1] : t \in typingTimers}
  /\ emitted' = <<>>
  /\ lastEvent' = [type |-> "elapse"]
  /\ UNCHANGED <<now, apiData, currentConversation, isChatOpen, connected, sends,
                 readTimers, seenTimers, teardown, dialogSocket, direct>>

\* ------------------------------------------------------------- sending
\* RejectsContent without the trim.
RejectsUntrimmed(content) == content = <<>>

\* handleSubmit's guard on the input text: the trimmed text is empty (currentUserId and
\* otherParticipant are always passed by Messages).
RejectsContent(content) == Trim(content) = <<>>

\* handleSendMessage's guard
CannotSend == ~socket \/ currentConversation = Null

\* The call that starts now: the first unused one.
FreeSend ==
  CHOOSE s \in SendIds :
    sends[s].pc = "idle" /\ \A x \in SendIds : sends[x].pc = "idle" => s <= x

\* The provisional message handleSendMessage inserts.
TempMessage ==
  ApiMessage(TempId(now), currentConversation.id, Me, ClientTime(now), FALSE, FALSE)

\* insertProvisional: the first setCurrentConversation of handleSendMessage
InsertProvisional(prev, tempMessage) ==
  IF prev = Null THEN Null
  ELSE [prev EXCEPT
          !.messages = Append(@, tempMessage),
          !.updatedAt = tempMessage.createdAt,
          !.lastMessage = [id |-> tempMessage.messageId,
                           createdAt |-> tempMessage.createdAt]]

\* The call sendMessageToAPI(body), in the log of calls.
RestCall(body) == [event |-> "sendMessageToAPI", on |-> "REST", body |-> body]

\* apiPayload of handleSendMessage
ApiPayload == [senderId |-> Me, conversationId |-> currentConversation.id]

\* A handleSendMessage that does not call handleTyping(false).
NoStoppedTyping == <<>>

\* handleTyping(false)
StoppedTyping == <<TypingStatus(currentConversation.id, FALSE)>>

\* ChatDialog handleSubmit, and through onSendMessage the part of
\* handleSendMessage that runs before its await.
HandleSubmit(message) ==
  /\ isChatOpen /\ currentConversation # Null
  /\ lastEvent' = [type |-> "submit", content |-> message,
                   pending |-> typingTimeoutRef]
  /\ UNCHANGED <<teardown, dialogSocket, direct>>
  /\ IF RejectsContent(message)
     THEN /\ emitted' = <<>>
          /\ UNCHANGED <<currentConversation, sends, typingTimers>>
     ELSE /\ IF CannotSend
             THEN /\ emitted' = <<>>
                  /\ UNCHANGED <<currentConversation, sends, typingTimers>>
             ELSE /\ \E s \in SendIds : sends[s].pc = "idle"
                  /\ typingTimers' = ClearTypingTimeout(typingTimers)
                  /\ Len(currentConversation.messages) < MaxMsgs
                  /\ Updated(InsertProvisional(currentConversation, TempMessage),
                             StoppedTyping \o <<RestCall(ApiPayload)>>)
                  /\ sends' = [sends EXCEPT ![FreeSend] =
                       [pc |-> "awaiting", tempMessageId |-> TempId(now),
                        conversationId |-> currentConversation.id,
                        onDelivered |-> FALSE, onSeen |-> FALSE,
                        cleanupTimer |-> FALSE]]
  /\ UNCHANGED <<now, apiData, isChatOpen, connected, readTimers,
                 seenTimers>>

\* resolveIdentity: the setCurrentConversation after the await
ResolveSend(prev, tempId, id, createdAt) ==
  IF prev = Null THEN Null
  ELSE [prev EXCEPT
          !.messages = ResolveIdentity(@, tempId, id, createdAt),
          !.lastMessage = [id |-> id, createdAt |-> createdAt]]

\* What handleSendMessage emits after the REST call succeeded.
SendEmits(s) ==
  IF connected
  THEN <<[event |-> "sendMessage", messageId |-> ServerId(s),
          conversationId |-> sends[s].conversationId, senderId |-> Me],
         [event |-> "messageSent", messageId |-> ServerId(s),
          conversationId |-> sends[s].conversationId, success |-> TRUE]>>
  ELSE <<>>

\* What handleSendMessage emits after the REST call failed (its catch).
FailedSendEmits(s) == <<>>

\* sendMessageToAPI(...).unwrap() resolves: the rest of the try block.
RestResolve(s) ==
  /\ sends[s].pc = "awaiting"
  /\ IF currentConversation = Null
     THEN /\ emitted' = SendEmits(s)
          /\ UNCHANGED currentConversation
     ELSE Updated(ResolveSend(currentConversation, sends[s].tempMessageId,
                              ServerId(s), ServerTime(ServerId(s))),
                  SendEmits(s))
  /\ sends' = [sends EXCEPT ![s].pc = "resolved", ![s].tempMessageId = NoId,
                            ![s].onDelivered = TRUE,
                            ![s].onSeen = TRUE, ![s].cleanupTimer = TRUE]
  /\ lastEvent' = [type |-> "restResolve", send |-> s]
  /\ UNCHANGED <<typingTimers, teardown, dialogSocket, direct>>
  /\ UNCHANGED <<now, apiData, isChatOpen, connected, readTimers,
                 seenTimers>>

\* A catch block that rolls the optimistic insert back.
RestRejectRollback(s) ==
  /\ sends[s].pc = "awaiting"
  /\ sends' = [sends EXCEPT ![s].pc = "failed"]
  /\ IF MessageExists(currentConversation.messages, sends[s].tempMessageId)
     THEN Updated([currentConversation EXCEPT
                     !.messages = SelectSeq(@, LAMBDA m :
                                    m.messageId # sends[s].tempMessageId)], <<>>)
     ELSE /\ emitted' = <<>>
          /\ UNCHANGED currentConversation
  /\ lastEvent' = [type |-> "restReject", send |-> s]
  /\ UNCHANGED <<typingTimers, teardown, dialogSocket, direct>>
  /\ UNCHANGED <<now, apiData, isChatOpen, connected, readTimers, seenTimers>>

\* A handleSendMessage without its catch: the error leaves the handler.
RethrowSendError(error) == "rejected"

\* catch (error) { console.error(...) } of handleSendMessage: the handler
\* returns, its promise is fulfilled.
CatchSendError(error) == "failed"

\* sendMessageToAPI(...).unwrap() rejects: the catch block.
RestReject(s) ==
  /\ sends[s].pc = "awaiting"
  /\ sends' = [sends EXCEPT ![s].pc = CatchSendError("rest")]
  /\ emitted' = FailedSendEmits(s)
  /\ lastEvent' = [type |-> "restReject", send |-> s]
  /\ UNCHANGED <<typingTimers, teardown, dialogSocket, direct>>
  /\ UNCHANGED <<now, apiData, currentConversation, isChatOpen, connected, readTimers, seenTimers>>

\* The per-send messageDelivered handlers that are registered and match.
DeliveredHandlers(id) == {s \in SendIds : sends[s].onDelivered /\ ServerId(s) = id}
SeenHandlers(id) == {s \in SendIds : sends[s].onSeen /\ ServerId(s) = id}

\* handleMessageDelivered of a send
HandleMessageDelivered(id) ==
  /\ connected
  /\ DeliveredHandlers(id) # {}
  /\ IF currentConversation = Null
     THEN /\ emitted' = <<>>
          /\ UNCHANGED currentConversation
     ELSE Updated([currentConversation EXCEPT !.messages = MarkDelivered(@, id)], <<>>)
  /\ sends' = [s \in SendIds |->
                 IF s \in DeliveredHandlers(id)
                 THEN [sends[s] EXCEPT !.onDelivered = FALSE] ELSE sends[s]]
  /\ lastEvent' = [type |-> "messageDelivered", messageId |-> id]
  /\ UNCHANGED <<typingTimers, teardown, dialogSocket, direct>>
  /\ UNCHANGED <<now, apiData, isChatOpen, connected, readTimers,
                 seenTimers>>

\* handleMessageSeen of a send
HandleMessageSeen(id) ==
  /\ connected
  /\ SeenHandlers(id) # {}
  /\ IF currentConversation = Null
     THEN /\ emitted' = <<>>
          /\ UNCHANGED currentConversation
     ELSE Updated([currentConversation EXCEPT !.messages = MarkSeen(@, id)], <<>>)
  /\ sends' = [s \in SendIds |->
                 IF s \in SeenHandlers(id)
                 THEN [sends[s] EXCEPT !.onSeen = FALSE] ELSE sends[s]]
  /\ lastEvent' = [type |-> "messageSeen", messageId |-> id]
  /\ UNCHANGED <<typingTimers, teardown, dialogSocket, direct>>
  /\ UNCHANGED <<now, apiData, isChatOpen, connected, readTimers,
                 seenTimers>>

\* A 10 s timer that takes no handler off.
CleanupTimerIdle(s) ==
  /\ sends[s].cleanupTimer
  /\ sends' = [sends EXCEPT ![s].cleanupTimer = FALSE]
  /\ emitted' = <<>>
  /\ lastEvent' = [type |-> "cleanupTimer", send |-> s]
  /\ UNCHANGED <<typingTimers, teardown, dialogSocket, direct>>
  /\ UNCHANGED <<now, apiData, currentConversation, isChatOpen, connected, readTimers, seenTimers>>

\* The 10 s timer of a send: both handlers off.
CleanupTimerFire(s) ==
  /\ sends[s].cleanupTimer
  /\ sends' = [sends EXCEPT ![s].cleanupTimer = FALSE, ![s].onDelivered = FALSE,
                            ![s].onSeen = FALSE]
  /\ emitted' = <<>>
  /\ lastEvent' = [type |-> "cleanupTimer", send |-> s]
  /\ UNCHANGED <<typingTimers, teardown, dialogSocket, direct>>
  /\ UNCHANGED <<now, apiData, currentConversation, isChatOpen, connected, readTimers, seenTimers>>

\* ------------------------------------------- ChatDialog sending by itself
\* ChatDialog is exported and its onSendMessage is optional: what follows is
\* handleSubmit for a parent that passes none.  The conversationId prop is
\* optional too (NoConv: not passed).  The socket is ChatDialog's own.
\* A messageData that names the receiver whatever else is known.
MessageDataWithReceiver(conversationId) ==
  IF conversationId # NoConv
  THEN [senderId |-> Me, receiverId |-> Other, conversationId |-> conversationId]
  ELSE [senderId |-> Me, receiverId |-> Other]

\* messageData of handleSubmit
MessageData(conversationId) ==
  IF conversationId # NoConv
  THEN [senderId |-> Me, conversationId |-> conversationId]
  ELSE [senderId |-> Me, receiverId |-> Other]

\* handleSubmit up to its await
HandleSubmitDirect(message, conversationId) ==
  /\ teardown = "none"
  /\ dialogSocket # "none"
  /\ lastEvent' = [type |-> "submitDirect", content |-> message,
                   conversationId |-> conversationId]
  /\ IF RejectsContent(message)
     THEN /\ emitted' = <<>>
          /\ UNCHANGED direct
     ELSE /\ \E d \in DirectIds :
               /\ direct[d].pc = "idle"
               /\ \A x \in DirectIds : direct[x].pc = "idle" => d <= x
               /\ direct' = [direct EXCEPT ![d] =
                    [pc |-> "awaiting", conversationId |-> conversationId,
                     messageId |-> TempId(now)]]
          /\ emitted' = <<RestCall(MessageData(conversationId))>>
  /\ UNCHANGED <<now, apiData, currentConversation, isChatOpen, connected, sends,
                 readTimers, seenTimers, typingTimers, teardown, dialogSocket>>

\* catch (error) { console.error(...); toast.error(...) } of handleSubmit
CatchSubmitError(error) == "toast"

\* The socketMessage handleSubmit emits.
SocketMessage(d, messageId) ==
  IF direct[d].conversationId # NoConv
  THEN [event |-> "sendMessage", on |-> "ChatDialog", senderId |-> Me,
        receiverId |-> Other, messageId |-> messageId,
        conversationId |-> direct[d].conversationId]
  ELSE [event |-> "sendMessage", on |-> "ChatDialog", senderId |-> Me,
        receiverId |-> Other, messageId |-> messageId]

\* handleSubmit after its await, with the messageId the inner try left.
SubmitAfterAwait(d, messageId) ==
  /\ direct[d].pc = "awaiting"
  /\ IF dialogSocket = "connected"
     THEN /\ emitted' = <<SocketMessage(d, messageId)>>
          /\ direct' = [direct EXCEPT ![d].pc = "sent", ![d].messageId = messageId]
     ELSE /\ emitted' = <<>>
          /\ direct' = [direct EXCEPT
                          ![d].pc = CatchSubmitError("No connection to server"),
                          ![d].messageId = messageId]
  /\ UNCHANGED <<now, apiData, currentConversation, isChatOpen, connected, sends,
                 readTimers, seenTimers, typingTimers, teardown, dialogSocket>>

\* sendMessageToAPI(messageData).unwrap() resolves in handleSubmit
DirectRestResolve(d) ==
  /\ SubmitAfterAwait(d, DirectId(d))
  /\ lastEvent' = [type |-> "directResolve", send |-> d]

\* sendMessageToAPI(messageData).unwrap() rejects in handleSubmit: the inner
\* catch warns and the temporary id is kept.
DirectRestReject(d) ==
  /\ SubmitAfterAwait(d, direct[d].messageId)
  /\ lastEvent' = [type |-> "directReject", send |-> d]

\* ------------------------------------------------------- specification
Next ==
  \/ OnConnect
  \/ OnDisconnect
  \/ Tick
  \/ \E c \in ConvIds : HandleConversationClick(c)
  \/ \E t \in readTimers : HandleMarkConversationAsRead(t)
  \/ HandleCloseChat
  \/ \E data \in StatusData : HandleMessageStatus(data)
  \/ \E data \in StatusUpdatedData : HandleMessageStatusUpdated(data)
  \/ \E data \in MessageSentData : HandleMessageSent(data)
  \/ \E data \in ConversationReadData : HandleConversationRead(data)
  \/ \E msg \in ReceivableMessages : HandleNewMessage(msg)
  \/ \E t \in seenTimers : SeenTimerFire(t)
  \/ \E c \in Contents : HandleSubmit(c)
  \/ \E s \in SendIds : RestResolve(s)
  \/ \E s \in SendIds : RestReject(s)
  \/ \E id \in AllIds : HandleMessageDelivered(id)
  \/ \E id \in AllIds : HandleMessageSeen(id)
  \/ \E s \in SendIds : CleanupTimerFire(s)
  \/ HandleTyping(TRUE)
  \/ \E t \in typingTimers : TypingTimerFire(t)
  \/ Elapse
  \/ DialogConnect
  \/ DialogDisconnect
  \/ Unmount
  \/ \E c \in Contents, conv \in ConvIds \cup {NoConv} : HandleSubmitDirect(c, conv)
  \/ \E d \in DirectIds : DirectRestResolve(d)
  \/ \E d \in DirectIds : DirectRestReject(d)
  \/ \E owner \in HookOwners, message \in HookMessages : SendMessage(owner, message)

Spec == Init /\ [][Next]_vars

\* Slices of Next that TLC explores exhaustively.  Each keeps whole handlers
\* and leaves out the events of other parts of the protocol.
\* Opening, closing and the connection: part of every slice.
NextSession ==
  \/ OnConnect
  \/ OnDisconnect
  \/ \E c \in ConvIds : HandleConversationClick(c)
  \/ \E t \in readTimers : HandleMarkConversationAsRead(t)
  \/ HandleCloseChat

\* The hook's sendMessage, called while the two sockets come and go.
NextHookSend ==
  \/ NextSession
  \/ DialogConnect
  \/ DialogDisconnect
  \/ Unmount
  \/ \E owner \in HookOwners, message \in HookMessages : SendMessage(owner, message)

SpecHookSend == Init /\ [][NextHookSend]_vars

\* Remote messages only.
NextReceive ==
  \/ NextSession
  \/ \E msg \in ReceivableMessages : HandleNewMessage(msg)
  \/ \E t \in seenTimers : SeenTimerFire(t)

SpecReceive == Init /\ [][NextReceive]_vars

\* The send pipeline: submit, REST outcome.
NextSend ==
  \/ NextSession
  \/ Tick
  \/ \E c \in Contents : HandleSubmit(c)
  \/ \E s \in SendIds : RestResolve(s)
  \/ \E s \in SendIds : RestReject(s)

SpecSend == Init /\ [][NextSend]_vars

\* Remote messages and the receipts that name them.
NextStatus ==
  \/ OnConnect
  \/ \E c \in ConvIds : HandleConversationClick(c)
  \/ \E t \in readTimers : HandleMarkConversationAsRead(t)
  \/ \E data \in StatusData : HandleMessageStatus(data)
  \/ \E data \in ConversationReadData : HandleConversationRead(data)
  \/ \E msg \in ReceivableMessages : HandleNewMessage(msg)
  \/ \E t \in seenTimers : SeenTimerFire(t)

SpecStatus == Init /\ [][NextStatus]_vars

\* Own messages, resolved by REST, then reported delivered.
DeliveredUpdates == {d \in StatusUpdatedData : d.status = "delivered"}

NextReceipt ==
  \/ OnConnect
  \/ Tick
  \/ \E c \in ConvIds : HandleConversationClick(c)
  \/ \E t \in readTimers : HandleMarkConversationAsRead(t)
  \/ \E c \in Contents : HandleSubmit(c)
  \/ \E s \in SendIds : RestResolve(s)
  \/ \E data \in DeliveredUpdates : HandleMessageStatusUpdated(data)

SpecReceipt == Init /\ [][NextReceipt]_vars

\* Typing: keystrokes, the 3000 ms timer, a send, leaving the conversation.
NextTyping ==
  \/ \E c \in ConvIds : HandleConversationClick(c)
  \/ \E t \in readTimers : HandleMarkConversationAsRead(t)
  \/ HandleTyping(TRUE)
  \/ \E t \in typingTimers : TypingTimerFire(t)
  \/ Elapse
  \/ \E c \in Contents : HandleSubmit(c)
  \/ Unmount

SpecTyping == Init /\ [][NextTyping]_vars

\* Own sends and what the transport pushes, own echoes included.
NextEcho ==
  \/ OnConnect
  \/ \E c \in ConvIds : HandleConversationClick(c)
  \/ \E c \in Contents : HandleSubmit(c)
  \/ \E s \in SendIds : RestResolve(s)
  \/ \E msg \in ReceivableMessages : HandleNewMessage(msg)
  \/ \E t \in seenTimers : SeenTimerFire(t)

SpecEcho == Init /\ [][NextEcho]_vars

\* The sockets of the two useSocket() calls, from mount to unmount.
NextHook ==
  \/ OnConnect
  \/ OnDisconnect
  \/ \E c \in ConvIds : HandleConversationClick(c)
  \/ \E t \in readTimers : HandleMarkConversationAsRead(t)
  \/ \E msg \in ReceivableMessages : HandleNewMessage(msg)
  \/ \E t \in seenTimers : SeenTimerFire(t)
  \/ DialogConnect
  \/ DialogDisconnect
  \/ Unmount

SpecHook == Init /\ [][NextHook]_vars

\* Both send paths with both REST outcomes, before and after the sockets
\* have connected.
OutcomeContents == {<<Space>>, <<"a">>}

NextOutcome ==
  \/ OnConnect
  \/ \E c \in ConvIds : HandleConversationClick(c)
  \/ \E c \in OutcomeContents : HandleSubmit(c)
  \/ \E s \in SendIds : RestResolve(s)
  \/ \E s \in SendIds : RestReject(s)
  \/ DialogConnect
  \/ \E c \in OutcomeContents, conv \in ConvIds \cup {NoConv} :
       HandleSubmitDirect(c, conv)
  \/ \E d \in DirectIds : DirectRestResolve(d)
  \/ \E d \in DirectIds : DirectRestReject(d)

SpecOutcome == Init /\ [][NextOutcome]_vars

\* The receipts of own messages, each of the four events more than once.
\* The events name a message this user sent, or one that is not in the list.
OwnOrAbsent(id) ==
  id \in {ServerId(s) : s \in SendIds} \/ ~MessageExists(currentConversation.messages, id)

IdemStatusData == {d \in StatusData : OwnOrAbsent(d.messageId)}

IdemStatusUpdatedData ==
  {d \in StatusUpdatedData :
     OwnOrAbsent(d.messageId) /\ d.conversationId = currentConversation.id}

NextIdem ==
  \/ OnConnect
  \/ \E c \in ConvIds : HandleConversationClick(c)
  \/ HandleSubmit(<<"a">>)
  \/ \E s \in SendIds : RestResolve(s)
  \/ \E data \in IdemStatusData : HandleMessageStatus(data)
  \/ \E data \in IdemStatusUpdatedData : HandleMessageStatusUpdated(data)
  \/ \E id \in AllIds : HandleMessageDelivered(id)
  \/ \E id \in AllIds : HandleMessageSeen(id)

SpecIdem == Init /\ [][NextIdem]_vars

\* The per-send receipt handlers, from the REST answer to their removal.  A
\* timer that was armed fires: the event loop runs it, mounted or not.
NextHandlers ==
  \/ OnConnect
  \/ \E c \in ConvIds : HandleConversationClick(c)
  \/ HandleSubmit(<<"a">>)
  \/ \E s \in SendIds : RestResolve(s)
  \/ \E s \in SendIds : RestReject(s)
  \/ \E id \in AllIds : HandleMessageDelivered(id)
  \/ \E id \in AllIds : HandleMessageSeen(id)
  \/ \E s \in SendIds : CleanupTimerFire(s)

SpecHandlers ==
  Init /\ [][NextHandlers]_vars /\ \A s \in SendIds : WF_vars(CleanupTimerFire(s))

\* ------------------------------------------------------------- claims
Messages == currentConversation.messages

Count(msgs, id) == Cardinality({i \in DOMAIN msgs : msgs[i].messageId = id})

\* C1: every receiveMessage event for the open conversation leaves its
\* messageId in the messages list exactly once, no id occurs twice, and a
\* delivery of an id that is already there leaves the list as long as it was.
C1_ReceiveDedup ==
  [][\A msg \in ReceivableMessages :
       HandleNewMessage(msg) =>
         /\ (currentConversation # Null /\ currentConversation.id = msg.conversationId)
              => Count(currentConversation'.messages, msg.messageId) = 1
         /\ \A id \in AllIds : Count(currentConversation'.messages, id) <= 1
         /\ Count(Messages, msg.messageId) >= 1
              => Len(currentConversation'.messages) = Len(Messages)]_vars

\* C1 witness: a message of the open conversation was delivered again after
\* a later message had been appended, and it is there once.
C1_Witness ==
  /\ lastEvent.type = "receiveMessage"
  /\ currentConversation.id = lastEvent.message.conversationId
  /\ Count(Messages, lastEvent.message.messageId) = 1
  /\ LastOf(Messages).messageId # lastEvent.message.messageId
  /\ Len(Messages) = MaxMsgs - 1

\* C2: every message of the open conversation that is seen is delivered.
C2_SeenImpliesDelivered ==
  \A i \in DOMAIN Messages : Messages[i].seen => Messages[i].delivered

\* Flags of the same message before and after a step.
KeepsFlags(old, new) ==
  /\ old.delivered => new.delivered
  /\ old.seen => new.seen

\* C3: a delivered or seen flag that is true stays true while the message is
\* in the open conversation: position by position under the events that keep
\* the list, id by id when the conversation is selected again from the list.
C3_FlagsMonotonic ==
  [][(currentConversation # Null /\ currentConversation'.id = currentConversation.id) =>
       IF lastEvent'.type = "conversationClick"
       THEN \A i \in DOMAIN Messages, j \in DOMAIN currentConversation'.messages :
              Messages[i].messageId = currentConversation'.messages[j].messageId
                => KeepsFlags(Messages[i], currentConversation'.messages[j])
       ELSE \A i \in DOMAIN Messages :
              /\ i \in DOMAIN currentConversation'.messages
              /\ KeepsFlags(Messages[i], currentConversation'.messages[i])]_vars

Read(msg) == [msg EXCEPT !.seen = TRUE, !.delivered = TRUE]

\* The first position of an id in a list.
IsFirstAt(msgs, id, k) ==
  /\ k \in DOMAIN msgs
  /\ msgs[k].messageId = id
  /\ \A j \in 1 .. (k - 1) : msgs[j].messageId # id

\* C4: a conversationRead event for the open conversation marks the messages
\* up to the position of lastReadMessageId seen and delivered and leaves the
\* later ones as they were; with that id absent the conversation is unchanged.
C4_ReadThrough ==
  [][\A data \in ConversationReadData :
       (HandleConversationRead(data) /\ data.conversationId = currentConversation.id) =>
         IF Count(Messages, data.lastReadMessageId) = 0
         THEN currentConversation' = currentConversation
         ELSE \E k \in DOMAIN Messages :
                /\ IsFirstAt(Messages, data.lastReadMessageId, k)
                /\ Len(currentConversation'.messages) = Len(Messages)
                /\ \A i \in DOMAIN Messages :
                     currentConversation'.messages[i] =
                       IF i <= k THEN Read(Messages[i]) ELSE Messages[i]
                /\ currentConversation' =
                     [currentConversation EXCEPT
                        !.messages = currentConversation'.messages]]_vars

\* C4 witness: a conversationRead for the open conversation named a message
\* that is not the last; it is now seen, a later one is not.
C4_Witness ==
  /\ lastEvent.type = "conversationRead"
  /\ lastEvent.data.conversationId = currentConversation.id
  /\ \E k \in DOMAIN Messages :
       /\ IsFirstAt(Messages, lastEvent.data.lastReadMessageId, k)
       /\ k >= 2
       /\ k < Len(Messages)
       /\ \A i \in 1 .. k : Messages[i].seen /\ Messages[i].delivered
       /\ ~Messages[Len(Messages)].seen
       /\ ~Messages[Len(Messages)].delivered

\* C5: when the REST call resolves and no message holds the send's temporary
\* id, the conversation state, lastMessage included, is unchanged.
C5_ResolveAbsentIsNoop ==
  [][\A s \in SendIds :
       (RestResolve(s) /\ Count(Messages, sends[s].tempMessageId) = 0)
         => currentConversation' = currentConversation]_vars

\* C6: when the REST call resolves, one entry, the one that held the temporary
\* id, gets the server id and createdAt and keeps its flags; the list keeps
\* its length and order and no other message is modified.
C6_ResolveInPlace ==
  [][\A s \in SendIds :
       (RestResolve(s) /\ Count(Messages, sends[s].tempMessageId) >= 1) =>
         /\ Len(currentConversation'.messages) = Len(Messages)
         /\ \E k \in DOMAIN Messages :
              /\ Messages[k].messageId = sends[s].tempMessageId
              /\ currentConversation'.messages[k] =
                   [Messages[k] EXCEPT !.messageId = ServerId(s),
                                       !.createdAt = ServerTime(ServerId(s))]
              /\ \A i \in DOMAIN Messages \ {k} :
                   currentConversation'.messages[i] = Messages[i]]_vars

\* C7: a messageStatusUpdated event {messageId, status: "delivered"} without a
\* conversationId, for a message this user sent and REST resolved, leaves
\* that message delivered, its seen flag as it was.
C7_DeliveredWithoutConversationId ==
  [][\A data \in DeliveredUpdates :
       (/\ HandleMessageStatusUpdated(data)
        /\ data.conversationId = NoConv
        /\ \E s \in SendIds : sends[s].pc = "resolved" /\ data.messageId = ServerId(s))
       => \A i \in DOMAIN Messages :
            Messages[i].messageId = data.messageId =>
              /\ currentConversation'.messages[i].delivered
              /\ currentConversation'.messages[i].seen = Messages[i].seen]_vars

IsSendMessage(e, id) == e.event = "sendMessage" /\ e.messageId = id

\* C8: when the REST call of a send ends and the socket is connected, a
\* sendMessage event is emitted, with the server id after a success and with
\* the temporary id after a failure.
C8_EmitsWhateverRestDid ==
  [][\A s \in SendIds :
       /\ (RestResolve(s) /\ connected)
            => \E n \in DOMAIN emitted' : IsSendMessage(emitted'[n], ServerId(s))
       /\ (RestReject(s) /\ connected)
            => \E n \in DOMAIN emitted' :
                 IsSendMessage(emitted'[n], sends[s].tempMessageId)]_vars

\* The provisional message of a send, as inserted.
IsProvisional(msg, tempId, conv) ==
  /\ msg.messageId = tempId
  /\ msg.conversationId = conv
  /\ msg.senderId = Me
  /\ ~msg.delivered
  /\ ~msg.seen

\* C9: the steps of a send whose REST call fails keep the provisional
\* message: the submit appends it with its temporary id and both flags false,
\* the failure changes nothing of the conversation and registers nothing.
C9_FailureKeepsProvisional ==
  [][/\ \A c \in Contents :
          (HandleSubmit(c) /\ sends' # sends) =>
            /\ Len(currentConversation'.messages) = Len(Messages) + 1
            /\ SubSeq(currentConversation'.messages, 1, Len(Messages)) = Messages
            /\ IsProvisional(LastOf(currentConversation'.messages), TempId(now),
                             currentConversation.id)
            /\ sends'[FreeSend].tempMessageId = TempId(now)
     /\ \A s \in SendIds :
          RestReject(s) =>
            /\ currentConversation' = currentConversation
            /\ sends'[s].pc = "failed"
            /\ ~sends'[s].onDelivered /\ ~sends'[s].onSeen /\ ~sends'[s].cleanupTimer
            /\ \A x \in SendIds \ {s} : sends'[x] = sends[x]]_vars

\* C9 witness: a REST call has just failed while the conversation of the send
\* is open, and the provisional message is there as inserted.
C9_Witness ==
  /\ lastEvent.type = "restReject"
  /\ sends[lastEvent.send].pc = "failed"
  /\ sends[lastEvent.send].conversationId = currentConversation.id
  /\ \E i \in DOMAIN Messages :
       IsProvisional(Messages[i], sends[lastEvent.send].tempMessageId,
                     currentConversation.id)

IsBlank(content) == \A i \in DOMAIN content : content[i] = Space

\* C10: a submit of empty or whitespace-only text starts no REST call, emits
\* nothing and leaves the conversation and everything else as it was.
C10_BlankSubmitDoesNothing ==
  [][\A c \in Contents :
       (HandleSubmit(c) /\ IsBlank(c)) =>
         /\ emitted' = <<>>
         /\ UNCHANGED <<now, apiData, currentConversation, isChatOpen, connected,
                        sends, readTimers, seenTimers, typingTimers, teardown,
                        dialogSocket, direct>>]_vars

\* C10 witness: whitespace was submitted in an open conversation over a live
\* connection while a send could still start.
C10_Witness ==
  /\ lastEvent.type = "submit"
  /\ lastEvent.content # <<>>
  /\ IsBlank(lastEvent.content)
  /\ isChatOpen /\ connected
  /\ currentConversation # Null
  /\ Len(Messages) < MaxMsgs
  /\ \E s \in SendIds : sends[s].pc = "idle"
  /\ emitted = <<>>

\* C11: handleTyping(true) emits isTyping=true at once and leaves one timer,
\* freshly armed for 3000 ms, whatever was pending; the isTyping=false of the
\* timer is emitted once, 3000 ms after the last handleTyping(true), and no
\* timer of an earlier keystroke is left to emit one in between.
C11_TypingDebounce ==
  [][/\ (HandleTyping(TRUE) /\ currentConversation # Null) =>
          /\ emitted' = <<TypingStatus(currentConversation.id, TRUE)>>
          /\ typingTimers' =
               {[conversationId |-> currentConversation.id, elapsed |-> 0,
                 current |-> TRUE]}
     /\ \A t \in typingTimers :
          TypingTimerFire(t) =>
            /\ t.current
            /\ t.elapsed = TypingTimeout
            /\ emitted' = <<TypingStatus(t.conversationId, FALSE)>>
            /\ typingTimers' = {}
     /\ Elapse => Cardinality(typingTimers') <= 1]_vars

\* C11 witness: a keystroke arrived while the timer of an earlier one had
\* been running for a second or more, and one fresh timer is pending.
C11_Witness ==
  /\ lastEvent.type = "typing"
  /\ lastEvent.isTyping
  /\ \E t \in lastEvent.cleared : t.elapsed >= 1
  /\ typingTimers = {TypingTimer(currentConversation.id)}
  /\ emitted = <<TypingStatus(currentConversation.id, TRUE)>>

IsReceipt(e, id, status) ==
  /\ e.event \in {"messageStatus", "messageStatusUpdated"}
  /\ e.messageId = id
  /\ e.status = status

ReceiptEvents(log) ==
  {n \in DOMAIN log : log[n].event \in {"messageStatus", "messageStatusUpdated"}}

\* C12: a receiveMessage event makes the client emit the delivered receipt
\* (messageStatus, then messageStatusUpdated) for its messageId exactly when
\* the sender is not the current user; for an echo of an own message no
\* receipt is emitted and no seen timer is armed.
C12_DeliveredUnlessOwn ==
  [][\A msg \in ReceivableMessages :
       HandleNewMessage(msg) =>
         IF msg.senderId # Me
         THEN \E a, b \in DOMAIN emitted' :
                /\ a < b
                /\ ReceiptEvents(emitted') = {a, b}
                /\ emitted'[a].event = "messageStatus"
                /\ emitted'[b].event = "messageStatusUpdated"
                /\ IsReceipt(emitted'[a], msg.messageId, "delivered")
                /\ IsReceipt(emitted'[b], msg.messageId, "delivered")
         ELSE /\ ReceiptEvents(emitted') = {}
              /\ seenTimers' = seenTimers]_vars

\* C12 witness: the echo of an own message was received in its conversation,
\* with the chat open, and nothing was emitted for it.
C12_Witness ==
  /\ lastEvent.type = "receiveMessage"
  /\ lastEvent.message.senderId = Me
  /\ isChatOpen
  /\ currentConversation.id = lastEvent.message.conversationId
  /\ Count(Messages, lastEvent.message.messageId) >= 1
  /\ ReceiptEvents(emitted) = {}

\* C13: when the seen receipt of a received message is emitted, the dialog is
\* open on the conversation of that message.
C13_SeenOnlyWhileShown ==
  [][\A t \in seenTimers :
       SeenTimerFire(t) =>
         /\ isChatOpen
         /\ currentConversation.id = t.conversationId]_vars

UserOnline == [event |-> "userOnline", userId |-> Me]

\* C14: every step in which a socket of the session becomes connected, the
\* first time or again, emits userOnline with the session's userId on that
\* socket before anything else.
C14_OnlineOnEveryConnect ==
  [][/\ (~connected /\ connected') =>
          /\ emitted' # <<>>
          /\ Head(emitted') = UserOnline
     /\ (dialogSocket # "connected" /\ dialogSocket' = "connected") =>
          /\ emitted' # <<>>
          /\ Head(emitted') = DialogUserOnline]_vars

\* C14 witness: the socket has connected again: a message that only a live
\* connection delivers is in the conversation.
C14_Witness ==
  /\ lastEvent.type = "connect"
  /\ connected
  /\ emitted = <<UserOnline>>
  /\ \E i \in DOMAIN Messages, k \in 1 .. MaxOther :
       Messages[i].messageId = OtherId(k)

\* The calls on the socket of Messages.
OnOwnSocket(e) == "on" \notin DOMAIN e

\* C15: the teardown of the hook emits userOffline and then disconnects when
\* the connection is live, emits no userOffline when it is not, and nothing
\* is emitted on the socket after the disconnect.
C15_OfflineThenNothing ==
  [][/\ (Unmount /\ connected) =>
          /\ Len(emitted') >= 2
          /\ emitted'[1] = [event |-> "userOffline", userId |-> Me]
          /\ emitted'[2] = SocketDisconnect
          /\ \A n \in 3 .. Len(emitted') : ~OnOwnSocket(emitted'[n])
     /\ (Unmount /\ ~connected) =>
          \A n \in DOMAIN emitted' :
            OnOwnSocket(emitted'[n]) => emitted'[n].event # "userOffline"
     /\ teardown = "disconnected" =>
          \A n \in DOMAIN emitted' : ~OnOwnSocket(emitted'[n])]_vars

\* C16: the session never has two live connections.
C16_SingleConnection == ~(connected /\ dialogSocket = "connected")

\* C18: a seen timer or a typing timer fires only while the component is
\* mounted and shows the conversation the timer was armed for.
C18_TimersCancelledOnTeardown ==
  [][/\ \A t \in seenTimers :
          SeenTimerFire(t) =>
            (teardown = "none" /\ currentConversation.id = t.conversationId)
     /\ \A t \in typingTimers :
          TypingTimerFire(t) =>
            (teardown = "none" /\ currentConversation.id = t.conversationId)]_vars

\* C19: when the conversation view is torn down (another conversation is
\* selected, or the component unmounts) no messageDelivered or messageSeen
\* handler of a send stays registered.
C19_HandlersOffOnTeardown ==
  [][(\/ Unmount
      \/ \E c \in ConvIds :
           /\ HandleConversationClick(c)
           /\ currentConversation # Null
           /\ c # currentConversation.id)
     => \A s \in SendIds : ~sends'[s].onDelivered /\ ~sends'[s].onSeen]_vars

\* C20: when the receiveMessage for an own message in flight came before the
\* REST call resolved (the provisional entry and the pushed one are both in
\* the list), the resolution leaves one entry with the server id.
C20_NoDuplicateAfterRace ==
  [][\A s \in SendIds :
       (/\ RestResolve(s)
        /\ Count(Messages, sends[s].tempMessageId) = 1
        /\ Count(Messages, ServerId(s)) = 1)
       => Count(currentConversation'.messages, ServerId(s)) = 1]_vars

\* C21: whatever the REST call answers and whatever the socket's state, a
\* send handler that awaited the call completes: the promise of
\* handleSendMessage is fulfilled (after its try block or after its catch),
\* and handleSubmit ends with the message sent or with a toast; no error
\* leaves either handler.
C21_NoErrorEscapes ==
  [][/\ \A s \in SendIds :
          (RestResolve(s) \/ RestReject(s)) =>
            sends'[s].pc \in {"resolved", "failed"}
     /\ \A d \in DirectIds :
          (DirectRestResolve(d) \/ DirectRestReject(d)) =>
            direct'[d].pc \in {"sent", "toast"}]_vars

\* C21 witness: with no socket connected, the REST call of a
\* handleSendMessage has failed and so has the one of a handleSubmit, which
\* then found no connection either.
C21_Witness ==
  /\ ~connected
  /\ dialogSocket = "connecting"
  /\ \E s \in SendIds : sends[s].pc = "failed"
  /\ lastEvent.type = "directReject"
  /\ direct[lastEvent.send].pc = "toast"
  /\ direct[lastEvent.send].messageId = TempId(now)

\* The bodies of the REST calls in a log of calls.
IsRestCall(e) == e.event = "sendMessageToAPI"

\* C26: the body of every REST send carries conversationId or receiverId,
\* never both; it carries the conversationId, and no receiverId, whenever
\* one is known (always in handleSendMessage, and in handleSubmit when the
\* prop is passed), and receiverId only when none is.
C26_ConversationScopedPayload ==
  [][/\ \A n \in DOMAIN emitted' :
          IsRestCall(emitted'[n]) =>
            /\ ~({"conversationId", "receiverId"} \subseteq DOMAIN emitted'[n].body)
            /\ {"conversationId", "receiverId"} \cap DOMAIN emitted'[n].body # {}
     /\ \A c \in Contents :
          (HandleSubmit(c) /\ sends' # sends) =>
            \E n \in DOMAIN emitted' :
              /\ IsRestCall(emitted'[n])
              /\ "receiverId" \notin DOMAIN emitted'[n].body
              /\ emitted'[n].body.conversationId = currentConversation.id
     /\ \A c \in Contents, conv \in ConvIds \cup {NoConv} :
          (HandleSubmitDirect(c, conv) /\ direct' # direct) =>
            /\ Len(emitted') = 1
            /\ IsRestCall(emitted'[1])
            /\ IF conv # NoConv
               THEN /\ "receiverId" \notin DOMAIN emitted'[1].body
                    /\ emitted'[1].body.conversationId = conv
               ELSE /\ "conversationId" \notin DOMAIN emitted'[1].body
                    /\ emitted'[1].body.receiverId = Other]_vars

\* C26 witness: handleSubmit was given no conversationId and its REST call
\* names the receiver, while a handleSendMessage of the open conversation is
\* awaiting the answer to its conversation-scoped call.
C26_Witness ==
  /\ lastEvent.type = "submitDirect"
  /\ lastEvent.conversationId = NoConv
  /\ emitted = <<RestCall([senderId |-> Me, receiverId |-> Other])>>
  /\ \E s \in SendIds :
       /\ sends[s].pc = "awaiting"
       /\ sends[s].conversationId = currentConversation.id

\* C22: a receiveMessage event for a conversation other than the open one,
\* or received while none is open, leaves currentConversation (messages,
\* lastMessage, updatedAt) as it was.
C22_OtherConversationIgnored ==
  [][\A msg \in ReceivableMessages :
       (HandleNewMessage(msg) /\ msg.conversationId # currentConversation.id)
         => UNCHANGED currentConversation]_vars

\* C22 witness: with a conversation that has messages open, a message of the
\* counterpart for the other conversation was received and acknowledged.
C22_Witness ==
  /\ lastEvent.type = "receiveMessage"
  /\ currentConversation # Null
  /\ Messages # <<>>
  /\ lastEvent.message.conversationId # currentConversation.id
  /\ lastEvent.message.senderId = Other
  /\ emitted = DeliveredReceipts(lastEvent.message)

\* C23: a delivered or seen event that is delivered a second time leaves the
\* conversation as the first delivery left it, and an event that names a
\* message that is not in the open conversation changes no message.  For
\* messageDelivered and messageSeen the first delivery takes the handler of
\* the send off, and what it wrote is what it would write again.
C23_ReceiptsIdempotent ==
  [][/\ \A data \in StatusData :
          HandleMessageStatus(data) =>
            /\ Again("messageStatus", data) => currentConversation' = currentConversation
            /\ ~MessageExists(Messages, data.messageId) =>
                 currentConversation'.messages = Messages
     /\ \A data \in StatusUpdatedData :
          HandleMessageStatusUpdated(data) =>
            /\ Again("messageStatusUpdated", data) =>
                 currentConversation' = currentConversation
            /\ ~MessageExists(Messages, data.messageId) =>
                 currentConversation'.messages = Messages
     /\ \A id \in AllIds :
          HandleMessageDelivered(id) =>
            /\ \A s \in SendIds : ServerId(s) = id => ~sends'[s].onDelivered
            /\ MarkDelivered(currentConversation'.messages, id) =
                 currentConversation'.messages
            /\ ~MessageExists(Messages, id) => currentConversation'.messages = Messages
     /\ \A id \in AllIds :
          HandleMessageSeen(id) =>
            /\ \A s \in SendIds : ServerId(s) = id => ~sends'[s].onSeen
            /\ MarkSeen(currentConversation'.messages, id) =
                 currentConversation'.messages
            /\ ~MessageExists(Messages, id) => currentConversation'.messages = Messages]_vars

\* C23 witness: the seen event for a message this user sent has been
\* delivered twice in a row, and the message is seen.
C23_Witness ==
  /\ lastEvent.type \in {"messageStatus", "messageStatusUpdated"}
  /\ lastEvent.again
  /\ lastEvent.data.status = "seen"
  /\ \E i \in DOMAIN Messages :
       /\ Messages[i].messageId = lastEvent.data.messageId
       /\ Messages[i].senderId = Me
       /\ Messages[i].seen

\* lastMessage names the last element of messages.
LastDerived(conv) ==
  \/ conv = Null
  \/ conv.messages = <<>>
  \/ conv.lastMessage.id = LastOf(conv.messages).messageId

\* C24: an optimistic insert, a remote receive, or the REST resolution of a
\* send whose provisional entry is in the list, started in a state in which
\* lastMessage.id is the messageId of the last element of messages, leads to
\* a state in which it is.
C24_LastMessageDerived ==
  [][LastDerived(currentConversation) =>
       /\ \A c \in Contents : HandleSubmit(c) => LastDerived(currentConversation')
       /\ \A msg \in ReceivableMessages :
            HandleNewMessage(msg) => LastDerived(currentConversation')
       /\ \A s \in SendIds :
            (RestResolve(s) /\ Count(Messages, sends[s].tempMessageId) = 1)
              => LastDerived(currentConversation')]_vars

\* The same entry of the list, whatever its flags, and with the server's
\* identity in place of the temporary one once the send was resolved.
SameEntry(old, new) ==
  /\ old.senderId = new.senderId
  /\ old.conversationId = new.conversationId
  /\ old.messageId = new.messageId \/ old.messageId[1] = "temp"

\* C25: while a conversation stays the open one, no step shortens its
\* messages list or changes the order of the entries it has: every entry is
\* at its position after the step.
C25_NeverDeleted ==
  [][(currentConversation # Null /\ currentConversation'.id = currentConversation.id)
       => /\ Len(currentConversation'.messages) >= Len(Messages)
          /\ \A i \in DOMAIN Messages :
               SameEntry(Messages[i], currentConversation'.messages[i])]_vars

\* The typingStatus isTyping=false calls in a log of calls.
StopCalls(log) ==
  {n \in DOMAIN log : log[n].event = "typingStatus" /\ ~log[n].isTyping}

\* C27: a send emits typingStatus isTyping=false as its first call, before
\* the REST call and before the render that shows the provisional message,
\* emits it once, and leaves no typing timer pending: none is emitted 3000 ms
\* later.
C27_SendStopsTyping ==
  [][\A c \in Contents :
       (HandleSubmit(c) /\ sends' # sends) =>
         /\ emitted'[1] = TypingStatus(currentConversation.id, FALSE)
         /\ StopCalls(emitted') = {1}
         /\ IsRestCall(emitted'[2])
         /\ Len(currentConversation'.messages) = Len(Messages) + 1
         /\ typingTimers' = {}]_vars

\* C27 witness: a message was sent while the timer of the last keystroke had
\* been running for a second or more; isTyping=false was emitted and no timer
\* is pending.
C27_Witness ==
  /\ lastEvent.type = "submit"
  /\ \E t \in lastEvent.pending : t.elapsed >= 1 /\ t.conversationId = currentConversation.id
  /\ \E s \in SendIds : sends[s].pc = "awaiting"
  /\ emitted[1] = TypingStatus(currentConversation.id, FALSE)
  /\ typingTimers = {}

\* C28: two sends never hold the same temporary id, and no two entries of
\* the list carry the same temporary id.
C28_TempIdsUnique ==
  /\ \A s, x \in SendIds :
       (s # x /\ sends[s].pc = "awaiting" /\ sends[x].pc = "awaiting")
         => sends[s].tempMessageId # sends[x].tempMessageId
  /\ \A i, j \in DOMAIN Messages :
       (i # j /\ Messages[i].messageId[1] = "temp")
         => Messages[i].messageId # Messages[j].messageId

\* A step sets delivered or seen on a message of this user that stays in the
\* open conversation.
OwnFlagRaised ==
  /\ currentConversation # Null
  /\ currentConversation'.id = currentConversation.id
  /\ \E i \in DOMAIN Messages :
       /\ i <= Len(currentConversation'.messages)
       /\ Messages[i].senderId = Me
       /\ SameEntry(Messages[i], currentConversation'.messages[i])
       /\ \/ ~Messages[i].delivered /\ currentConversation'.messages[i].delivered
          \/ ~Messages[i].seen /\ currentConversation'.messages[i].seen

ReceiptEventTypes ==
  {"messageStatus", "messageStatusUpdated", "messageSent", "messageDelivered",
   "messageSeen", "conversationRead"}

\* C29: delivered or seen is set on a message of this user only by a step
\* that handles a receipt event of the transport.
C29_OwnFlagsFromReceiptsOnly ==
  [][OwnFlagRaised => lastEvent'.type \in ReceiptEventTypes]_vars

\* C30: once the useSocket effect of Messages has been cleaned up, whatever
\* the state of the connection was, the socket is not connected and no
\* userOnline is emitted on it.
C30_ClosedAfterTeardown ==
  teardown # "none" =>
    /\ ~connected
    /\ \A n \in DOMAIN emitted : emitted[n] # UserOnline

\* The last message of the conversation an event names, as this client has it.
LastMessageIdOf(c) ==
  IF currentConversation # Null /\ currentConversation.id = c
  THEN (IF Messages = <<>> THEN NoId ELSE LastOf(Messages).messageId)
  ELSE (IF apiData[c] = <<>> THEN NoId ELSE LastOf(apiData[c]).messageId)

\* C31: every conversationRead the client emits names the last message of
\* the conversation it names, and opening the first conversation of the
\* session, when it has a message, leaves a timer that will emit
\* conversationRead for it.
C31_ReadNamesLastMessage ==
  [][/\ \A n \in DOMAIN emitted' :
          emitted'[n].event = "conversationRead" =>
            emitted'[n].lastReadMessageId = LastMessageIdOf(emitted'[n].conversationId)
     /\ \A c \in ConvIds :
          (HandleConversationClick(c) /\ currentConversation = Null /\ apiData[c] # <<>>)
            => \E t \in readTimers' : t.conversationId = c]_vars

\* The joinConversation and leaveConversation calls of a log, in order.
JoinLeave(log) ==
  SelectSeq(log, LAMBDA e : e.event \in {"joinConversation", "leaveConversation"})

\* The rooms joined after the calls of log, from the rooms joined before
\* them: <<>> for none, <<c>> for the room of conversation c, and a longer
\* sequence when a join followed a join, a leave followed a leave or a leave
\* named another room than the one joined.
RECURSIVE RoomsAfter(_, _)
RoomsAfter(rooms, log) ==
  IF log = <<>> \/ Len(rooms) > 1 THEN rooms
  ELSE IF Head(log).event = "joinConversation"
       THEN RoomsAfter(Append(rooms, Head(log).conversationId), Tail(log))
       ELSE (IF rooms = <<Head(log).conversationId>>
             THEN RoomsAfter(<<>>, Tail(log))
             ELSE <<NoConv, NoConv>>)

\* The room of the open conversation.
RoomOf(conv) == IF conv = Null THEN <<>> ELSE <<conv.id>>

\* C32: the joinConversation and leaveConversation calls alternate, the
\* first is a join, every leave names the room of the join before it; the
\* room joined is that of the open conversation at every moment, and none
\* once Messages was torn down.  Every step continues the alternation from
\* the room joined before it to the room of the conversation after it.
C32_JoinLeaveAlternate ==
  [][/\ RoomsAfter(RoomOf(currentConversation), JoinLeave(emitted'))
          = RoomOf(currentConversation')
     /\ teardown' # "none" => currentConversation' = Null]_vars

\* C32 witness: Messages was torn down with a conversation open in which a
\* message had just been received; the last call of the pair is the leave of
\* the room that was joined.
C32_Witness ==
  /\ lastEvent.type = "unmount"
  /\ JoinLeave(emitted) # <<>>
  /\ LastOf(JoinLeave(emitted)).event = "leaveConversation"
  /\ LastOf(JoinLeave(emitted)).conversationId \in ConvIds
  /\ currentConversation = Null
  /\ seenTimers # {}

\* The per-send handlers that a step takes off.
DeliveredOff(s) == sends[s].onDelivered /\ ~sends'[s].onDelivered
SeenOff(s) == sends[s].onSeen /\ ~sends'[s].onSeen

\* C33: the REST answer of a send registers both of its handlers together
\* with the 10 s timer, a REST failure registers none; a handler comes off
\* only at a receipt for the id of its own send or when its timer fires, the
\* timer takes both off, and every handler that is registered comes off.
C33_HandlersComeOff ==
  /\ [][/\ \A s \in SendIds :
             RestResolve(s) =>
               sends'[s].onDelivered /\ sends'[s].onSeen /\ sends'[s].cleanupTimer
        /\ \A s \in SendIds :
             RestReject(s) =>
               ~sends'[s].onDelivered /\ ~sends'[s].onSeen /\ ~sends'[s].cleanupTimer
        /\ \A s \in SendIds :
             CleanupTimerFire(s) => ~sends'[s].onDelivered /\ ~sends'[s].onSeen
        /\ \A s \in SendIds :
             /\ DeliveredOff(s) =>
                  HandleMessageDelivered(ServerId(s)) \/ CleanupTimerFire(s)
             /\ SeenOff(s) =>
                  HandleMessageSeen(ServerId(s)) \/ CleanupTimerFire(s)]_vars
  /\ \A s \in SendIds :
       (sends[s].onDelivered \/ sends[s].onSeen)
         ~> (~sends[s].onDelivered /\ ~sends[s].onSeen)

\* C33 witness: the delivered receipt of a send took its messageDelivered
\* handler off while its messageSeen handler and its timer are still there,
\* and the REST call of another send has failed.
C33_Witness ==
  /\ lastEvent.type = "messageDelivered"
  /\ \E s \in SendIds :
       /\ ServerId(s) = lastEvent.messageId
       /\ ~sends[s].onDelivered /\ sends[s].onSeen /\ sends[s].cleanupTimer
  /\ \E s \in SendIds :
       sends[s].pc = "failed" /\ ~sends[s].onDelivered /\ ~sends[s].onSeen

\* The two receipt calls of one status for one message, in the code's order.
ReceiptPair(log, n, id, status) ==
  /\ n + 1 \in DOMAIN log
  /\ log[n].event = "messageStatus" /\ IsReceipt(log[n], id, status)
  /\ log[n + 1].event = "messageStatusUpdated" /\ IsReceipt(log[n + 1], id, status)

\* Every receipt call of the log belongs to such a pair.
AllInPairs(log) ==
  \A n \in ReceiptEvents(log) :
    \/ ReceiptPair(log, n, log[n].messageId, log[n].status)
    \/ n > 1 /\ ReceiptPair(log, n - 1, log[n].messageId, log[n].status)

\* C34: a seen receipt is emitted only by a timer that handleNewMessage armed
\* in a step that emitted the delivered receipt for the same messageId, so
\* the delivered emission comes first; and the receipts of one status always
\* go out as messageStatus followed by messageStatusUpdated.
C34_SeenAfterDelivered ==
  [][/\ \A n \in ReceiptEvents(emitted') :
          emitted'[n].status = "seen" =>
            \E t \in seenTimers :
              SeenTimerFire(t) /\ t.messageId = emitted'[n].messageId
     /\ \A t \in seenTimers' \ seenTimers :
          \E n \in DOMAIN emitted' : ReceiptPair(emitted', n, t.messageId, "delivered")
     /\ AllInPairs(emitted')]_vars

\* C34 witness: the seen timer of a received message has fired and sent the
\* seen pair for it, the message being in the open conversation.
C34_Witness ==
  /\ lastEvent.type = "seenTimer"
  /\ ReceiptPair(emitted, 1, lastEvent.timer.messageId, "seen")
  /\ currentConversation # Null
  /\ MessageExists(Messages, lastEvent.timer.messageId)

\* C35: a receiveMessage event for a message that is already in the open
\* conversation, which a received message of the other user enters only
\* through an earlier receiveMessage event that emitted its delivered
\* receipt, makes the client emit no further receipt.
C35_DeliveredOnce ==
  [][\A msg \in ReceivableMessages :
       (HandleNewMessage(msg) /\ MessageExists(Messages, msg.messageId))
         => ReceiptEvents(emitted') = {}]_vars

\* The sendMessage calls of a log.
SendMessageCalls(log) == {n \in DOMAIN log : log[n].event = "sendMessage"}

\* C36: sendMessage of the hook returns true exactly when its socket is
\* connected at the call; it then emits exactly one sendMessage event, which
\* carries the message it was given, on its own socket; otherwise it returns
\* false and emits nothing.
C36_SendMessageReturn ==
  [][\A owner \in HookOwners, message \in HookMessages :
       SendMessage(owner, message) =>
         /\ lastEvent'.returned = HookConnected(owner)
         /\ IF lastEvent'.returned
            THEN /\ Len(emitted') = 1
                 /\ emitted'[1].event = "sendMessage"
                 /\ emitted'[1].message = message
                 /\ ("on" \in DOMAIN emitted'[1]) = (owner = "ChatDialog")
            ELSE emitted' = <<>>]_vars

\* C36 witness: sendMessage returned false on a socket that was connected
\* before and has dropped, the other hook's socket being connected.
C36_Witness ==
  /\ lastEvent.type = "sendMessage"
  /\ ~lastEvent.returned
  /\ lastEvent.owner = "Messages"
  /\ emitted = <<>>
  /\ dialogSocket = "connected"
  /\ teardown = "none"
  /\ currentConversation # Null

====
